---- MODULE Spec2Model ----
(***************************************************************************)
(* Model of @beanbag/eslint-plugin (src/src/index.ts).                     *)
(*                                                                         *)
(* The package exports two plain objects, `configs` and `environments`.    *)
(* They are the registry: a configuration or environment is obtained by    *)
(* property access on the export, and the names are the export's own keys. *)
(* The host linter reads the `extends` and `overrides` entries recorded in *)
(* the data to decide which configurations apply to a file.                *)
(*                                                                         *)
(* JavaScript values are written as follows: an object literal is a record *)
(* (or a function written with :> and @@ when a key is no identifier), an  *)
(* array is a tuple, a rule map is the tuple of its <<key, setting>>       *)
(* entries in source order, and a file pattern or file name is the tuple   *)
(* of its characters.                                                      *)
(***************************************************************************)
EXTENDS Integers, Sequences, FiniteSets, TLC

VARIABLES configs, environments, res, linted

vars == <<configs, environments, res, linted>>

(* Number of callers reading the registry. *)
NumCallers == 2

(* Longest generated file-name stem. *)
MaxStemLen == 2

(***************************************************************************)
(* Rule settings: a bare severity ('error') or an array whose first item   *)
(* is the severity (['error', ...options]).                                *)
(***************************************************************************)
RuleSeverity(s) ==
    [kind |-> "severity", value |-> s]

RuleArray(a) ==
    [kind |-> "array", items |-> a]

noFallThroughPattern == "[Ff]alls?\\s?through"

es5Rules ==
    <<
        <<"arrow-spacing", RuleArray(<<
                "error",
                [after |-> TRUE, before |-> TRUE]
            >>)>>,
        <<"brace-style", RuleArray(<<
                "error",
                "1tbs",
                [allowSingleLine |-> TRUE]
            >>)>>,
        <<"comma-dangle", RuleArray(<<"error", "never">>)>>,
        <<"comma-spacing", RuleArray(<<
                "error",
                [after |-> TRUE, before |-> FALSE]
            >>)>>,
        <<"comma-style", RuleArray(<<"error", "last">>)>>,
        <<"curly", RuleArray(<<"error", "all">>)>>,
        <<"default-case", RuleSeverity("error")>>,
        <<"default-case-last", RuleSeverity("error")>>,
        <<"eqeqeq", RuleArray(<<"error", "always">>)>>,
        <<"func-call-spacing", RuleArray(<<"error", "never">>)>>,
        <<"indent", RuleArray(<<
                "error",
                4,
                [
                    ArrayExpression |-> "first",
                    CallExpression |-> [arguments |-> "first"],
                    FunctionDeclaration |-> [body |-> 1, parameters |-> "first"],
                    FunctionExpression |-> [body |-> 1, parameters |-> "first"],
                    ImportDeclaration |-> 1,
                    MemberExpression |-> "off",
                    ObjectExpression |-> "first",
                    SwitchCase |-> 1,
                    ignoredNodes |-> <<"ConditionalExpression">>,
                    outerIIFEBody |-> 0
                ]
            >>)>>,
        <<"linebreak-style", RuleArray(<<"error", "unix">>)>>,
        <<"lines-around-comment", RuleArray(<<
                "warn",
                [
                    beforeBlockComment |-> TRUE,
                    beforeLineComment |-> TRUE,
                    allowArrayEnd |-> TRUE,
                    allowArrayStart |-> TRUE,
                    allowBlockEnd |-> TRUE,
                    allowBlockStart |-> TRUE,
                    allowClassEnd |-> TRUE,
                    allowClassStart |-> TRUE,
                    allowObjectEnd |-> TRUE,
                    allowObjectStart |-> TRUE,
                    ignorePattern |-> noFallThroughPattern
                ]
            >>)>>,
        <<"max-len", RuleArray(<<
                "error",
                [
                    code |-> 79,
                    ignorePattern |-> "gettext\\(.*",
                    ignoreUrls |-> TRUE
                ]
            >>)>>,
        <<"no-confusing-arrow", RuleArray(<<
                "error",
                [allowParens |-> TRUE]
            >>)>>,
        <<"no-fallthrough", RuleArray(<<
                "error",
                [
                    allowEmptyCase |-> TRUE,
                    commentPattern |-> noFallThroughPattern
                ]
            >>)>>,
        <<"no-mixed-spaces-and-tabs", RuleSeverity("error")>>,
        <<"no-multi-spaces", RuleArray(<<
                "warn",
                [ignoreEOLComments |-> TRUE]
            >>)>>,
        <<"no-multiple-empty-lines", RuleArray(<<
                "error",
                [max |-> 2, maxBOF |-> 1, maxEOF |-> 0]
            >>)>>,
        <<"no-prototype-builtins", RuleSeverity("off")>>,
        <<"no-tabs", RuleSeverity("error")>>,
        <<"no-trailing-spaces", RuleSeverity("error")>>,
        <<"no-unused-vars", RuleArray(<<
                "error",
                [args |-> "none", vars |-> "local"]
            >>)>>,
        <<"padding-line-between-statements", RuleArray(<<
                "error",
                [
                    blankLine |-> "always",
                    next |-> <<"block-like", "class", "function">>,
                    prev |-> "*"
                ],
                [
                    blankLine |-> "always",
                    next |-> "*",
                    prev |-> <<"block-like", "class", "function">>
                ],
                [
                    blankLine |-> "any",
                    next |-> <<"const", "let", "var">>,
                    prev |-> "*"
                ],
                [
                    blankLine |-> "always",
                    next |-> "*",
                    prev |-> <<"case", "default">>
                ],
                [blankLine |-> "always", next |-> "return", prev |-> "*"]
            >>)>>,
        <<"quotes", RuleArray(<<
                "error",
                "single",
                [avoidEscape |-> TRUE]
            >>)>>,
        <<"semi", RuleArray(<<"error", "always">>)>>,
        <<"sort-keys", RuleArray(<<
                "warn",
                "asc",
                [allowLineSeparatedGroups |-> TRUE]
            >>)>>,
        <<"space-in-parens", RuleArray(<<"error", "never">>)>>,
        <<"spaced-comment", RuleArray(<<
                "error",
                "always",
                [
                    block |-> [markers |-> <<"*", "!">>],
                    exceptions |-> <<"*", "-">>
                ]
            >>)>>,
        <<"yoda", RuleArray(<<"error", "never">>)>>
    >>

(* es5 with the severity and the option of one setting written in the      *)
(* wrong order.                                                            *)
es5ConfigSwapped ==
    [
        extends |-> <<"eslint:recommended">>,
        rules |-> [i \in DOMAIN es5Rules |->
                      IF es5Rules[i][1] = "yoda"
                      THEN <<"yoda", RuleArray(<<"never", "error">>)>>
                      ELSE es5Rules[i]]
    ]

es5Config ==
    [
        extends |-> <<"eslint:recommended">>,
        rules |-> es5Rules
    ]

es6Rules ==
    <<
        <<"comma-dangle", RuleArray(<<
                "error",
                [
                    arrays |-> "always-multiline",
                    exports |-> "always-multiline",
                    functions |-> "only-multiline",
                    imports |-> "always-multiline",
                    objects |-> "always-multiline"
                ]
            >>)>>,
        <<"no-var", RuleSeverity("error")>>,
        <<"prefer-const", RuleSeverity("warn")>>,
        <<"quotes", RuleArray(<<
                "error",
                "single",
                [allowTemplateLiterals |-> TRUE, avoidEscape |-> TRUE]
            >>)>>
    >>

(* es6 with one rule identifier written twice in its rule map. *)
es6ConfigDuplicated ==
    [
        env |-> [es2021 |-> TRUE],
        parserOptions |-> [ecmaVersion |-> "latest"],
        globals |-> [dedent |-> "readonly"],
        rules |-> Append(es6Rules, <<"no-var", RuleSeverity("warn")>>)
    ]

es6Config ==
    [
        env |-> [es2021 |-> TRUE],
        parserOptions |-> [ecmaVersion |-> "latest"],
        globals |-> [dedent |-> "readonly"],
        rules |-> es6Rules
    ]

typescriptRules ==
    <<
        <<"@typescript-eslint/no-this-alias", RuleSeverity("warn")>>,
        <<"@typescript-eslint/lines-around-comment", RuleArray(<<
                "warn",
                [
                    beforeBlockComment |-> TRUE,
                    beforeLineComment |-> TRUE,
                    allowArrayEnd |-> TRUE,
                    allowArrayStart |-> TRUE,
                    allowBlockEnd |-> TRUE,
                    allowBlockStart |-> TRUE,
                    allowClassEnd |-> TRUE,
                    allowClassStart |-> TRUE,
                    allowEnumEnd |-> TRUE,
                    allowEnumStart |-> TRUE,
                    allowInterfaceEnd |-> TRUE,
                    allowInterfaceStart |-> TRUE,
                    allowModuleEnd |-> TRUE,
                    allowModuleStart |-> TRUE,
                    allowObjectEnd |-> TRUE,
                    allowObjectStart |-> TRUE,
                    allowTypeEnd |-> TRUE,
                    allowTypeStart |-> TRUE,
                    ignorePattern |-> noFallThroughPattern
                ]
            >>)>>,
        <<"lines-around-comment", RuleSeverity("off")>>
    >>

typescriptConfig ==
    [
        extends |-> <<"plugin:@beanbag/es6", "plugin:@typescript-eslint/recommended">>,
        parser |-> "@typescript-eslint/parser",
        plugins |-> <<"@typescript-eslint">>,
        rules |-> typescriptRules
    ]

jasmineTestsRules ==
    <<
        <<"jasmine/new-line-before-expect", RuleSeverity("off")>>,
        <<"jasmine/no-expect-in-setup-teardown", RuleSeverity("off")>>,
        <<"jasmine/no-global-setup", RuleSeverity("off")>>,
        <<"jasmine/no-spec-dupes", RuleArray(<<"error", "branch">>)>>,
        <<"jasmine/no-suite-dupes", RuleArray(<<"warn", "branch">>)>>,
        <<"jasmine/prefer-toHaveBeenCalledWith", RuleSeverity("off")>>
    >>

jasmineTestsConfig ==
    [
        env |-> ("@beanbag/jasmine-suites" :> TRUE @@ "jasmine" :> TRUE),
        extends |-> <<"plugin:jasmine/recommended">>,
        plugins |-> <<"jasmine">>,
        globals |-> ("$testsScratch" :> "writable"),
        rules |-> jasmineTestsRules
    ]

recommendedOverrides ==
    <<
        [
            files |-> <<
                <<"*", ".", "e", "s", "6", ".", "j", "s">>
            >>,
            extends |-> <<"plugin:@beanbag/es6">>
        ],
        [
            files |-> <<
                <<"*", ".", "t", "s">>
            >>,
            extends |-> <<"plugin:@beanbag/typescript">>
        ],
        [
            files |-> <<
                <<"*", "T", "e", "s", "t", "s", ".", "e", "s", "6", ".", "j", "s">>,
                <<"*", "T", "e", "s", "t", "s", ".", "j", "s">>,
                <<"*", "T", "e", "s", "t", "s", ".", "t", "s">>
            >>,
            extends |-> <<"plugin:@beanbag/jasmine">>
        ],
        [
            files |-> <<
                <<"r", "o", "l", "l", "u", "p", ".", "c", "o", "n", "f", "i", "g", ".", "j", "s">>,
                <<".", "b", "a", "b", "e", "l", "r", "c">>
            >>,
            extends |-> <<"plugin:@beanbag/es6">>,
            parserOptions |-> [sourceType |-> "module"]
        ]
    >>

recommendedConfig ==
    [
        extends |-> <<"plugin:@beanbag/es5">>,
        plugins |-> <<"@beanbag">>,
        overrides |-> recommendedOverrides
    ]

(* The keys of `configs` as the object literal writes them, in order. *)
configsKeys ==
    <<"es5", "es6", "typescript", "jasmine", "recommended">>

configsExport ==
    [
        es5 |-> es5Config,
        es6 |-> es6Config,
        typescript |-> typescriptConfig,
        jasmine |-> jasmineTestsConfig,
        recommended |-> recommendedConfig
    ]

(* backbone with its globals written beside, not under, `globals`. *)
backboneEnvFlat ==
    ("Backbone" :> FALSE @@ "_" :> FALSE)

backboneEnv ==
    [globals |-> ("Backbone" :> FALSE @@ "_" :> FALSE)]

(* django without npgettext. *)
djangoEnvIncomplete ==
    [globals |-> ("django" :> FALSE @@ "gettext" :> FALSE @@ "gettext_noop" :> FALSE @@ "interpolate" :> FALSE @@ "ngettext" :> FALSE @@ "pgettext" :> FALSE)]

djangoEnv ==
    [globals |-> ("django" :> FALSE @@ "gettext" :> FALSE @@ "gettext_noop" :> FALSE @@ "interpolate" :> FALSE @@ "ngettext" :> FALSE @@ "npgettext" :> FALSE @@ "pgettext" :> FALSE)]

djbletsEnv ==
    ("Djblets" :> FALSE)

jasmineSuitesEnv ==
    [globals |-> ("suite" :> FALSE)]

reviewboardEnv ==
    ("RB" :> FALSE)

environmentsExport ==
    (
       "backbone" :> backboneEnv
    @@ "django" :> djangoEnv
    @@ "djblets" :> djbletsEnv
    @@ "jasmine-suites" :> jasmineSuitesEnv
    @@ "reviewboard" :> reviewboardEnv
    )

(***************************************************************************)
(* JavaScript object semantics used by the registry.                       *)
(***************************************************************************)

(* Object.keys(obj): the own keys of an object literal. *)
OwnKeys(obj) ==
    DOMAIN obj

(* Members every object literal inherits from Object.prototype.  They are  *)
(* not own keys, but a property access by such a name finds them.          *)
ObjectPrototypeKeys ==
    {"constructor", "toString", "hasOwnProperty"}

(* obj[name] where the registry returns a record when the name is an own   *)
(* key and an empty default record otherwise (a defaulting registry).      *)
PropertyLookupDefaulting(obj, name) ==
    IF name \in OwnKeys(obj)
    THEN [kind |-> "record", value |-> obj[name]]
    ELSE [kind |-> "record", value |-> [rules |-> <<>>]]

(* obj[name]: the own member, else the inherited member, else undefined.   *)
(* No branch raises an error.                                              *)
PropertyLookup(obj, name) ==
    IF name \in OwnKeys(obj)
    THEN [kind |-> "record", value |-> obj[name]]
    ELSE IF name \in ObjectPrototypeKeys
         THEN [kind |-> "inherited", member |-> name]
         ELSE [kind |-> "undefined"]

(* config.rules, an empty rule map when the key is absent. *)
RulesOf(config) ==
    IF "rules" \in DOMAIN config THEN config.rules ELSE <<>>

(* config.extends, empty when the key is absent. *)
ExtendsOf(config) ==
    IF "extends" \in DOMAIN config THEN config.extends ELSE <<>>

(* The severity of a rule setting: the setting itself, or the first item   *)
(* of the array.                                                           *)
Severity(setting) ==
    IF setting.kind = "array" THEN setting.items[1] ELSE setting.value

(* The rule identifiers a rule map declares. *)
RuleIds(rules) ==
    {rules[i][1] : i \in DOMAIN rules}

(* rules[id] of an object literal: the last entry written for the key. *)
RuleSetting(rules, id) ==
    LET last == CHOOSE i \in DOMAIN rules :
                    /\ rules[i][1] = id
                    /\ \A j \in DOMAIN rules : rules[j][1] = id => j <= i
    IN  rules[last][2]

(* The globals an environment declares: the keys of its `globals` member.  *)
(* Keys written beside `globals` declare nothing.                          *)
EnvGlobals(env) ==
    IF "globals" \in DOMAIN env THEN env.globals ELSE <<>>

(* The permission tag of a global declared with a boolean: false is        *)
(* read-only, true is writable.                                            *)
GlobalPermission(value) ==
    IF value THEN "writable" ELSE "readonly"

(***************************************************************************)
(* Registry operations.  Each caller keeps the outcome of its last call.   *)
(***************************************************************************)
Callers ==
    1..NumCallers

(* Names callers ask for: every registered name and unregistered ones. *)
RequestNames ==
    OwnKeys(configsExport) \cup OwnKeys(environmentsExport)
        \cup {"unknown-xyz", "constructor"}

NoCall ==
    [op |-> "none"]

(* A lookup that registers an empty record under a name it does not find.  *)
getConfigurationRegistering(c, name) ==
    /\ res' = [res EXCEPT ![c] = [op |-> "getConfiguration", name |-> name,
                                  out |-> PropertyLookup(configs, name)]]
    /\ configs' = IF name \in OwnKeys(configs)
                  THEN configs
                  ELSE (name :> [rules |-> <<>>]) @@ configs
    /\ UNCHANGED <<environments, linted>>

(* A lookup that marks the record it hands out as loaded. *)
getConfigurationMarking(c, name) ==
    /\ res' = [res EXCEPT ![c] = [op |-> "getConfiguration", name |-> name,
                                  out |-> PropertyLookup(configs, name)]]
    /\ configs' = IF name \in OwnKeys(configs)
                  THEN [configs EXCEPT ![name] = ("loaded" :> TRUE) @@ @]
                  ELSE configs
    /\ UNCHANGED <<environments, linted>>

(* configs[name] *)
getConfiguration(c, name) ==
    /\ res' = [res EXCEPT ![c] = [op |-> "getConfiguration", name |-> name,
                                  out |-> PropertyLookup(configs, name)]]
    /\ UNCHANGED <<configs, environments, linted>>

(* environments[name] *)
getEnvironment(c, name) ==
    /\ res' = [res EXCEPT ![c] = [op |-> "getEnvironment", name |-> name,
                                  out |-> PropertyLookup(environments, name)]]
    /\ UNCHANGED <<configs, environments, linted>>

(* Object.keys(configs) *)
listConfigurations(c) ==
    /\ res' = [res EXCEPT ![c] = [op |-> "listConfigurations",
                                  names |-> OwnKeys(configs)]]
    /\ UNCHANGED <<configs, environments, linted>>

(* Object.keys(environments) *)
listEnvironments(c) ==
    /\ res' = [res EXCEPT ![c] = [op |-> "listEnvironments",
                                  names |-> OwnKeys(environments)]]
    /\ UNCHANGED <<configs, environments, linted>>

(***************************************************************************)
(* File routing: the `extends` and `overrides` entries of a configuration, *)
(* as the host linter evaluates them for one file.                         *)
(***************************************************************************)

(* The part of a path after its last "/". *)
Basename(path) ==
    IF \E i \in DOMAIN path : path[i] = "/"
    THEN LET last == CHOOSE i \in DOMAIN path :
                         /\ path[i] = "/"
                         /\ \A j \in DOMAIN path : path[j] = "/" => j <= i
         IN  SubSeq(path, last + 1, Len(path))
    ELSE path

RECURSIVE GlobMatchNonEmptyStar(_, _)
(* A matcher whose "*" needs at least one character. *)
GlobMatchNonEmptyStar(pattern, name) ==
    IF pattern = <<>>
    THEN name = <<>>
    ELSE IF Head(pattern) = "*"
         THEN /\ name /= <<>>
              /\ Head(name) /= "/"
              /\ \/ GlobMatchNonEmptyStar(Tail(pattern), Tail(name))
                 \/ GlobMatchNonEmptyStar(pattern, Tail(name))
         ELSE /\ name /= <<>>
              /\ Head(name) = Head(pattern)
              /\ GlobMatchNonEmptyStar(Tail(pattern), Tail(name))

RECURSIVE GlobMatch(_, _)
(* A `files` pattern against a file name: "*" stands for any run of        *)
(* characters other than "/", the empty run included; every other          *)
(* character stands for itself.                                            *)
GlobMatch(pattern, name) ==
    IF pattern = <<>>
    THEN name = <<>>
    ELSE IF Head(pattern) = "*"
         THEN \/ GlobMatch(Tail(pattern), name)
              \/ /\ name /= <<>>
                 /\ Head(name) /= "/"
                 /\ GlobMatch(pattern, Tail(name))
         ELSE /\ name /= <<>>
              /\ Head(name) = Head(pattern)
              /\ GlobMatch(Tail(pattern), Tail(name))

(* An override applies to a file when one of its `files` patterns matches  *)
(* the file's base name (the patterns hold no "/").                        *)
OverrideMatches(override, path) ==
    \E i \in DOMAIN override.files :
        GlobMatch(override.files[i], Basename(path))

(* The prefix under which `extends` names a configuration of this plugin. *)
PluginPrefix ==
    "plugin:@beanbag/"

RECURSIVE LoadExtends(_, _), ExtendsElements(_, _), ConfigElements(_, _)

(* A configuration applied before, not after, what it extends. *)
ConfigElementsOwnFirst(registry, name) ==
    <<name>> \o ExtendsElements(registry, ExtendsOf(registry[name]))

(* A configuration without the configurations it extends. *)
ConfigElementsWithoutParents(registry, name) ==
    <<name>>

(* The configurations one `extends` entry brings in, in order of           *)
(* application: a configuration of this plugin with everything it extends, *)
(* or the entry itself when another package owns it.                       *)
LoadExtends(registry, entry) ==
    IF \E n \in OwnKeys(registry) : PluginPrefix \o n = entry
    THEN ConfigElements(registry,
             CHOOSE n \in OwnKeys(registry) : PluginPrefix \o n = entry)
    ELSE <<entry>>

ExtendsElements(registry, entries) ==
    IF entries = <<>>
    THEN <<>>
    ELSE LoadExtends(registry, Head(entries))
             \o ExtendsElements(registry, Tail(entries))

(* A configuration applies after everything it extends. *)
ConfigElements(registry, name) ==
    ExtendsElements(registry, ExtendsOf(registry[name])) \o <<name>>

RECURSIVE OverrideElements(_, _, _)
(* The configurations the matching overrides bring in, in source order. *)
OverrideElements(registry, overrides, path) ==
    IF overrides = <<>>
    THEN <<>>
    ELSE (IF OverrideMatches(Head(overrides), path)
          THEN ExtendsElements(registry, ExtendsOf(Head(overrides)))
          ELSE <<>>)
             \o OverrideElements(registry, Tail(overrides), path)

(* Everything that applies to a file under a configuration, lowest         *)
(* precedence first.                                                       *)
AppliedConfigs(registry, root, path) ==
    ConfigElements(registry, root)
        \o (IF "overrides" \in DOMAIN registry[root]
            THEN OverrideElements(registry, registry[root].overrides, path)
            ELSE <<>>)

(* A combination in which the earlier setting stands. *)
CombineSettingKeepingEarlier(over, base) ==
    base

(* A later setting that is a bare severity keeps the options of the        *)
(* setting it replaces; any other later setting replaces it whole.         *)
CombineSetting(over, base) ==
    IF over.kind = "severity" /\ base.kind = "array" /\ Len(base.items) >= 2
    THEN RuleArray(<<over.value>> \o Tail(base.items))
    ELSE over

(* The object an object literal builds: a key written twice keeps its      *)
(* first place and its last value.                                         *)
ObjectEntries(entries) ==
    LET indexed == [i \in DOMAIN entries |-> <<i, entries[i]>>]
        firsts == SelectSeq(indexed,
                      LAMBDA p : \A j \in 1..(p[1] - 1) :
                                     entries[j][1] /= p[2][1])
    IN  [i \in DOMAIN firsts |->
            <<firsts[i][2][1], RuleSetting(entries, firsts[i][2][1])>>]

(* A merge that appends every later entry. *)
MergeRulesConcatenating(base, over) ==
    base \o over

(* Merging a later rule map over an earlier one: a rule both declare keeps *)
(* its place and takes the later setting, a new rule is appended.          *)
MergeRules(base, over) ==
    LET later == ObjectEntries(over)
        kept == [i \in DOMAIN base |->
                    IF base[i][1] \in RuleIds(later)
                    THEN <<base[i][1],
                           CombineSetting(RuleSetting(later, base[i][1]),
                                          base[i][2])>>
                    ELSE base[i]]
        added == SelectSeq(later, LAMBDA e : e[1] \notin RuleIds(base))
    IN  kept \o added

RECURSIVE EffectiveRules(_, _)
(* The rule map of a file: the rule maps of this plugin's configurations   *)
(* that apply, merged in order.  Rules of other packages' configurations   *)
(* are not part of this package and are left out.                          *)
EffectiveRules(registry, applied) ==
    IF applied = <<>>
    THEN <<>>
    ELSE LET n == applied[Len(applied)]
             before == EffectiveRules(registry,
                                      SubSeq(applied, 1, Len(applied) - 1))
         IN  IF n \in OwnKeys(registry)
             THEN MergeRules(before, RulesOf(registry[n]))
             ELSE before

(***************************************************************************)
(* File names the linter is run on.                                        *)
(***************************************************************************)
Dirs ==
    {<<>>, <<"j", "s", "/">>}

StemChars ==
    {"a", "b"}

Stems ==
    UNION {[1..n -> StemChars] : n \in 0..MaxStemLen}

Mids ==
    {<<>>, <<"T", "e", "s", "t", "s">>}

Exts ==
    { <<".", "j", "s">>,
      <<".", "e", "s", "6", ".", "j", "s">>,
      <<".", "t", "s">>,
      <<".", "t", "s", "x">>,
      <<".", "j", "s", "x">>,
      <<".", "d", ".", "t", "s">>,
      <<".", "e", "s", "6">>,
      <<".", "m", "j", "s">>,
      <<".", "s", "t", "o", "r", "i", "e", "s", ".", "j", "s">>,
      <<".", "s", "t", "o", "r", "i", "e", "s", ".", "t", "s">> }

SpecialNames ==
    { <<"r", "o", "l", "l", "u", "p", ".", "c", "o", "n", "f", "i", "g",
        ".", "j", "s">>,
      <<".", "b", "a", "b", "e", "l", "r", "c">> }

Files ==
    {d \o s \o m \o e : d \in Dirs, s \in Stems, m \in Mids, e \in Exts}
        \cup {d \o n : d \in Dirs, n \in SpecialNames}

(* The rule map in force for the file last resolved. *)
LintedRules ==
    EffectiveRules(configs, linted.applied)

NotLinted ==
    [file |-> <<>>, applied |-> <<>>]

(* The host linter resolves a file under plugin:@beanbag/recommended: the  *)
(* configurations that apply, from which the file's rule map follows.      *)
lintFile(path) ==
    /\ linted' = [file |-> path,
                  applied |-> AppliedConfigs(configs, "recommended", path)]
    /\ UNCHANGED <<configs, environments, res>>

(***************************************************************************)
(* Specifications.                                                         *)
(***************************************************************************)
Init ==
    /\ configs = configsExport
    /\ environments = environmentsExport
    /\ res = [c \in Callers |-> NoCall]
    /\ linted = NotLinted

Next ==
    \E c \in Callers :
        \/ \E name \in RequestNames : getConfiguration(c, name)
        \/ \E name \in RequestNames : getEnvironment(c, name)
        \/ listConfigurations(c)
        \/ listEnvironments(c)

Spec ==
    Init /\ [][Next]_vars

LintNext ==
    \E path \in Files : lintFile(path)

LintSpec ==
    Init /\ [][LintNext]_vars

(***************************************************************************)
(* Helpers of the properties.                                              *)
(***************************************************************************)
Range(seq) ==
    {seq[i] : i \in DOMAIN seq}

EndsWith(name, suffix) ==
    /\ Len(name) >= Len(suffix)
    /\ SubSeq(name, Len(name) - Len(suffix) + 1, Len(name)) = suffix

(* Caller c last looked up a name that is no own key of the registry. *)
IsLookupMiss(c) ==
    \/ /\ res[c].op = "getConfiguration"
       /\ res[c].name \notin OwnKeys(configs)
    \/ /\ res[c].op = "getEnvironment"
       /\ res[c].name \notin OwnKeys(environments)

(* Caller c last looked up environment `name`. *)
LookedUpEnvironment(c, name) ==
    /\ res[c].op = "getEnvironment"
    /\ res[c].name = name

(* Caller c last looked up configuration `name`. *)
LookedUpConfiguration(c, name) ==
    /\ res[c].op = "getConfiguration"
    /\ res[c].name = name

(* A file has been resolved. *)
Linted ==
    linted.file /= <<>>

(* The configurations of this plugin among those applied, in order. *)
OwnApplied ==
    SelectSeq(linted.applied, LAMBDA n : n \in OwnKeys(configs))

TestsSuffixes ==
    { <<"T", "e", "s", "t", "s", ".", "e", "s", "6", ".", "j", "s">>,
      <<"T", "e", "s", "t", "s", ".", "j", "s">>,
      <<"T", "e", "s", "t", "s", ".", "t", "s">> }

Es6Suffix ==
    <<".", "e", "s", "6", ".", "j", "s">>

TsSuffix ==
    <<".", "t", "s">>

(***************************************************************************)
(* C1 as stated: a lookup of a configuration or environment by a name that *)
(* is not registered fails with the Unknown Name (NotFoundError) outcome.  *)
(***************************************************************************)
C1_UnknownNameFails ==
    \A c \in Callers :
        IsLookupMiss(c) => res[c].out.kind = "NotFoundError"

(***************************************************************************)
(* C1 amended: a lookup by a name that is not registered never yields a    *)
(* configuration or environment record and raises nothing: it yields       *)
(* undefined, or the member inherited from Object.prototype exactly when   *)
(* the name is one of its members.                                         *)
(***************************************************************************)
C1_UnknownNameYieldsNoRecord ==
    \A c \in Callers :
        IsLookupMiss(c) =>
            /\ res[c].out.kind /= "record"
            /\ res[c].out.kind \in {"undefined", "inherited"}
            /\ res[c].out.kind = "inherited"
                   <=> res[c].name \in ObjectPrototypeKeys

(* Both registries have been asked for a name they do not hold. *)
C1_Witness ==
    \E c1, c2 \in Callers :
        /\ res[c1].op = "getConfiguration"
        /\ res[c1].name = "unknown-xyz"
        /\ res[c1].out.kind = "undefined"
        /\ res[c2].op = "getEnvironment"
        /\ res[c2].name \notin OwnKeys(environments)
        /\ res[c2].out.kind = "undefined"

(***************************************************************************)
(* C2: the environment registered as "djblets" has a globals mapping in    *)
(* which Djblets is tagged read-only.                                      *)
(***************************************************************************)
C2_DjbletsGlobalReadOnly ==
    \A c \in Callers :
        LookedUpEnvironment(c, "djblets") =>
            /\ res[c].out.kind = "record"
            /\ "globals" \in DOMAIN res[c].out.value
            /\ "Djblets" \in DOMAIN EnvGlobals(res[c].out.value)
            /\ GlobalPermission(EnvGlobals(res[c].out.value)["Djblets"])
                   = "readonly"

(***************************************************************************)
(* C3: the environment registered as "reviewboard" has a globals mapping   *)
(* in which RB is tagged read-only.                                        *)
(***************************************************************************)
C3_ReviewboardGlobalReadOnly ==
    \A c \in Callers :
        LookedUpEnvironment(c, "reviewboard") =>
            /\ res[c].out.kind = "record"
            /\ "globals" \in DOMAIN res[c].out.value
            /\ "RB" \in DOMAIN EnvGlobals(res[c].out.value)
            /\ GlobalPermission(EnvGlobals(res[c].out.value)["RB"])
                   = "readonly"

(***************************************************************************)
(* C4: the environment "backbone" has a globals mapping whose keys are     *)
(* exactly Backbone and _, both read-only, and declares no other global.   *)
(***************************************************************************)
C4_BackboneGlobals ==
    \A c \in Callers :
        LookedUpEnvironment(c, "backbone") =>
            /\ res[c].out.kind = "record"
            /\ "globals" \in DOMAIN res[c].out.value
            /\ DOMAIN EnvGlobals(res[c].out.value) = {"Backbone", "_"}
            /\ \A g \in DOMAIN EnvGlobals(res[c].out.value) :
                   GlobalPermission(EnvGlobals(res[c].out.value)[g])
                       = "readonly"

(* A caller holds the backbone environment record. *)
C4_Witness ==
    \E c \in Callers :
        /\ LookedUpEnvironment(c, "backbone")
        /\ res[c].out.kind = "record"
        /\ EnvGlobals(res[c].out.value) /= <<>>

(***************************************************************************)
(* C5 as stated: recommended routes every file named                       *)
(* <prefix>Tests.<extension>, the pattern "*Tests.*", to the jasmine       *)
(* configuration.                                                          *)
(***************************************************************************)
C5_TestsStarRoutedToJasmine ==
    (Linted /\ GlobMatch(<<"*", "T", "e", "s", "t", "s", ".", "*">>,
                         Basename(linted.file)))
        => "jasmine" \in Range(linted.applied)

(***************************************************************************)
(* C5 amended: recommended holds one override record, with the patterns    *)
(* "*Tests.es6.js", "*Tests.js" and "*Tests.ts", that resolves to jasmine  *)
(* and to nothing else; a file is routed to jasmine exactly when its name  *)
(* ends in Tests.es6.js, Tests.js or Tests.ts.                             *)
(***************************************************************************)
C5_TestsPatternsRoutedToJasmine ==
    /\ \E i \in DOMAIN configs["recommended"].overrides :
           LET o == configs["recommended"].overrides[i]
           IN  /\ o.extends = <<"plugin:@beanbag/jasmine">>
               /\ Range(o.files) = {<<"*">> \o s : s \in TestsSuffixes}
    /\ Linted =>
           ("jasmine" \in Range(linted.applied)
                <=> \E s \in TestsSuffixes :
                        EndsWith(Basename(linted.file), s))

(* A file named Tests.ts, with nothing before "Tests", reaches jasmine. *)
C5_Witness ==
    /\ Linted
    /\ "jasmine" \in Range(linted.applied)
    /\ Basename(linted.file) = <<"T", "e", "s", "t", "s", ".", "t", "s">>

(***************************************************************************)
(* C6 as stated: under recommended every file receives es5, every file     *)
(* matching "*.es6.js" receives es6, every file matching "*.ts" receives   *)
(* typescript, and a file matching neither receives neither of the two.    *)
(***************************************************************************)
C6_RecommendedRouting ==
    Linted =>
        LET name == Basename(linted.file)
            got == Range(linted.applied)
        IN  /\ "es5" \in got
            /\ EndsWith(name, Es6Suffix) => "es6" \in got
            /\ EndsWith(name, TsSuffix) => "typescript" \in got
            /\ (~EndsWith(name, Es6Suffix) /\ ~EndsWith(name, TsSuffix))
                   => ("es6" \notin got /\ "typescript" \notin got)

(***************************************************************************)
(* C6 amended: under recommended every file receives es5, every file       *)
(* matching "*.es6.js" receives es6, every file matching "*.ts" receives   *)
(* typescript; rollup.config.js and .babelrc receive es6 too; any other    *)
(* file matching neither pattern receives neither es6 nor typescript.      *)
(***************************************************************************)
C6_RecommendedRoutingWithBuildFiles ==
    Linted =>
        LET name == Basename(linted.file)
            got == Range(linted.applied)
        IN  /\ "es5" \in got
            /\ EndsWith(name, Es6Suffix) => "es6" \in got
            /\ EndsWith(name, TsSuffix) => "typescript" \in got
            /\ name \in SpecialNames
                   => ("es6" \in got /\ "typescript" \notin got)
            /\ (/\ ~EndsWith(name, Es6Suffix)
                /\ ~EndsWith(name, TsSuffix)
                /\ name \notin SpecialNames)
                   => ("es6" \notin got /\ "typescript" \notin got)

(* A TypeScript file has been routed to es5 and typescript. *)
C6_Witness ==
    /\ Linted
    /\ EndsWith(Basename(linted.file), TsSuffix)
    /\ {"es5", "typescript"} \subseteq Range(linted.applied)

(***************************************************************************)
(* C7: merging es6 on top of es5 yields a rule map in which each rule      *)
(* identifier occurs once, every rule es6 does not redeclare keeps its es5 *)
(* setting, and the rules declared in both (comma-dangle and quotes) have  *)
(* the same severity in es6 as in es5.                                     *)
(***************************************************************************)
C7_Es6MergedOverEs5 ==
    (Linted /\ OwnApplied = <<"es5", "recommended", "es6">>) =>
        LET es5 == RulesOf(configs["es5"])
            es6 == RulesOf(configs["es6"])
            merged == LintedRules
        IN  /\ \A id \in RuleIds(merged) :
                   Cardinality({i \in DOMAIN merged : merged[i][1] = id}) = 1
            /\ RuleIds(merged) = RuleIds(es5) \cup RuleIds(es6)
            /\ \A id \in RuleIds(es5) \ RuleIds(es6) :
                   RuleSetting(merged, id) = RuleSetting(es5, id)
            /\ RuleIds(es5) \cap RuleIds(es6) = {"comma-dangle", "quotes"}
            /\ \A id \in RuleIds(es5) \cap RuleIds(es6) :
                   Severity(RuleSetting(es6, id))
                       = Severity(RuleSetting(es5, id))

(* An ES6 file has es6 merged over es5, with a rule of each kind. *)
C7_Witness ==
    /\ Linted
    /\ OwnApplied = <<"es5", "recommended", "es6">>
    /\ EndsWith(Basename(linted.file), Es6Suffix)
    /\ {"yoda", "quotes", "no-var"} \subseteq RuleIds(LintedRules)

(***************************************************************************)
(* C8: in every registered configuration every rule setting has a severity *)
(* that is off, warn or error, whether bare or followed by options.        *)
(***************************************************************************)
C8_SeveritiesValid ==
    /\ \A n \in OwnKeys(configs) :
           \A i \in DOMAIN RulesOf(configs[n]) :
               Severity(RulesOf(configs[n])[i][2]) \in {"off", "warn", "error"}
    /\ \A c \in Callers :
           (res[c].op = "getConfiguration" /\ res[c].out.kind = "record") =>
               \A i \in DOMAIN RulesOf(res[c].out.value) :
                   Severity(RulesOf(res[c].out.value)[i][2])
                       \in {"off", "warn", "error"}

(* A caller holds a configuration with bare and with array settings. *)
C8_Witness ==
    \E c \in Callers :
        /\ LookedUpConfiguration(c, "es5")
        /\ res[c].out.kind = "record"
        /\ \E i, j \in DOMAIN RulesOf(res[c].out.value) :
               /\ RulesOf(res[c].out.value)[i][2].kind = "severity"
               /\ RulesOf(res[c].out.value)[j][2].kind = "array"

(***************************************************************************)
(* C9: after any interleaving of lookups and listings by the callers,      *)
(* lookups of unknown names included, the configurations and environments  *)
(* are what they were at construction.                                     *)
(***************************************************************************)
C9_RegistryUnchanged ==
    /\ configs = configsExport
    /\ environments = environmentsExport

(* One caller has missed, another has found a record, the registry stands. *)
C9_Witness ==
    \E c1, c2 \in Callers :
        /\ c1 /= c2
        /\ IsLookupMiss(c1)
        /\ res[c2].op \in {"getConfiguration", "getEnvironment"}
        /\ res[c2].out.kind = "record"
        /\ configs = configsExport

(***************************************************************************)
(* C10: for every registered configuration name, any two lookups of that   *)
(* name return equal records, whatever was looked up in between.           *)
(***************************************************************************)
C10_LookupIdempotent ==
    \A c1, c2 \in Callers :
        \A n \in OwnKeys(configsExport) :
            (LookedUpConfiguration(c1, n) /\ LookedUpConfiguration(c2, n)) =>
                /\ res[c1].out.kind = "record"
                /\ res[c2].out.kind = "record"
                /\ res[c1].out.value = res[c2].out.value

(* Two callers hold the record of the same configuration. *)
C10_Witness ==
    \E c1, c2 \in Callers :
        /\ c1 /= c2
        /\ LookedUpConfiguration(c1, "typescript")
        /\ LookedUpConfiguration(c2, "typescript")
        /\ res[c1].out.kind = "record"

(***************************************************************************)
(* C11: no configuration declares the same rule identifier twice, and no   *)
(* two entries of the registry share a name.                               *)
(***************************************************************************)
C11_IdentifiersUnique ==
    /\ \A n \in OwnKeys(configs) :
           LET rules == RulesOf(configs[n])
           IN  \A i, j \in DOMAIN rules :
                   rules[i][1] = rules[j][1] => i = j
    /\ \A i, j \in DOMAIN configsKeys :
           configsKeys[i] = configsKeys[j] => i = j
    /\ Range(configsKeys) = OwnKeys(configs)
    /\ \A c \in Callers :
           res[c].op = "listConfigurations" =>
               Cardinality(res[c].names) = Len(configsKeys)

(* The names have been listed and a caller holds a rule map of several     *)
(* identifiers.                                                            *)
C11_Witness ==
    \E c1, c2 \in Callers :
        /\ res[c1].op = "listConfigurations"
        /\ LookedUpConfiguration(c2, "es6")
        /\ res[c2].out.kind = "record"
        /\ Cardinality(RuleIds(RulesOf(res[c2].out.value))) > 1

(***************************************************************************)
(* C12: the environment "django" records exactly django, gettext,          *)
(* gettext_noop, interpolate, ngettext, npgettext and pgettext in its      *)
(* globals mapping, each read-only.                                        *)
(***************************************************************************)
C12_DjangoGlobals ==
    \A c \in Callers :
        LookedUpEnvironment(c, "django") =>
            /\ res[c].out.kind = "record"
            /\ "globals" \in DOMAIN res[c].out.value
            /\ DOMAIN EnvGlobals(res[c].out.value)
                   = {"django", "gettext", "gettext_noop", "interpolate",
                      "ngettext", "npgettext", "pgettext"}
            /\ \A g \in DOMAIN EnvGlobals(res[c].out.value) :
                   GlobalPermission(EnvGlobals(res[c].out.value)[g])
                       = "readonly"

(* A caller holds the django environment record. *)
C12_Witness ==
    \E c \in Callers :
        /\ LookedUpEnvironment(c, "django")
        /\ res[c].out.kind = "record"
        /\ "gettext" \in DOMAIN EnvGlobals(res[c].out.value)

(***************************************************************************)
(* C13: for every Storybook story file the rule map in force under         *)
(* recommended has sort-keys off.                                          *)
(***************************************************************************)
StorySuffixes ==
    { <<".", "s", "t", "o", "r", "i", "e", "s", ".", "j", "s">>,
      <<".", "s", "t", "o", "r", "i", "e", "s", ".", "t", "s">> }

C13_StoryFilesSortKeysOff ==
    (Linted /\ \E s \in StorySuffixes : EndsWith(Basename(linted.file), s))
        => \/ "sort-keys" \notin RuleIds(LintedRules)
           \/ Severity(RuleSetting(LintedRules, "sort-keys")) = "off"

(***************************************************************************)
(* The spaced-comment setting, as the host linter applies it to one        *)
(* comment.  Markers and exceptions are single characters, as the source   *)
(* writes them; a comment is the tuple of the characters after "//".       *)
(***************************************************************************)
Whitespace ==
    {" ", "\t"}

(* The options object of the setting: its third item, if any. *)
SpacedCommentOptions(setting) ==
    IF setting.kind = "array" /\ Len(setting.items) >= 3
    THEN setting.items[3]
    ELSE <<>>

(* One list option ("markers" or "exceptions") for a comment type ("line"  *)
(* or "block"): the type's own list, else the shared list, else none.      *)
SpacedCommentList(options, type, key) ==
    IF type \in DOMAIN options /\ key \in DOMAIN options[type]
    THEN Range(options[type][key])
    ELSE IF key \in DOMAIN options
         THEN Range(options[key])
         ELSE {}

(* The markers of a comment type; "*" is always one. *)
SpacedCommentMarkers(options, type) ==
    SpacedCommentList(options, type, "markers") \cup {"*"}

(* After the optional marker: whitespace, or a run of one exception        *)
(* character up to the end of the comment.                                 *)
SpaceOrExceptionRun(text, exceptions) ==
    /\ text /= <<>>
    /\ \/ text[1] \in Whitespace
       \/ \E e \in exceptions : \A i \in DOMAIN text : text[i] = e

(* Whether a line comment passes the setting. *)
LineCommentAccepted(setting, text) ==
    LET options == SpacedCommentOptions(setting)
        markers == SpacedCommentMarkers(options, "line")
        exceptions == SpacedCommentList(options, "line", "exceptions")
        always == \/ setting.kind = "severity"
                  \/ Len(setting.items) < 2
                  \/ setting.items[2] = "always"
        afterMarker == IF text /= <<>> /\ text[1] \in markers
                       THEN {text, Tail(text)}
                       ELSE {text}
    IN  \/ Severity(setting) = "off"
        \/ text = <<>>
        \/ Len(text) = 1 /\ text[1] \in markers
        \/ /\ always
           /\ \E rest \in afterMarker : SpaceOrExceptionRun(rest, exceptions)
        \/ /\ ~always
           /\ \A rest \in afterMarker :
                  rest = <<>> \/ rest[1] \notin Whitespace

(* Line comments the linter meets. *)
LineComments ==
    { <<" ", "x">>, <<"x">>, <<"-", "-", "-">>, <<"*", " ", "x">>,
      <<"/", " ", "<", "r", "e", "f">>, <<"/", "x">>, <<"/", "/">> }

(***************************************************************************)
(* C14: in the rule map in force for a file matching "*.ts", the           *)
(* spaced-comment setting accepts every line comment whose text begins     *)
(* with "/" (a triple-slash comment).                                      *)
(***************************************************************************)
C14_TripleSlashAccepted ==
    (Linted /\ EndsWith(Basename(linted.file), TsSuffix)) =>
        \A text \in LineComments :
            text[1] = "/" =>
                \/ "spaced-comment" \notin RuleIds(LintedRules)
                \/ LineCommentAccepted(
                       RuleSetting(LintedRules, "spaced-comment"), text)

(* The setting accepts spaced comments and exception runs and rejects an   *)
(* unspaced comment, for every file.                                       *)
SpacedCommentBaseline ==
    Linted =>
        LET setting == RuleSetting(LintedRules, "spaced-comment")
        IN  /\ LineCommentAccepted(setting, <<" ", "x">>)
            /\ LineCommentAccepted(setting, <<"-", "-", "-">>)
            /\ LineCommentAccepted(setting, <<"*", " ", "x">>)
            /\ ~LineCommentAccepted(setting, <<"x">>)

(***************************************************************************)
(* C15: under recommended the es6 rules apply to every file matching       *)
(* "*.es6.js" or "*.ts"; for "*.ts" files they come from the parent list   *)
(* of typescript and apply before typescript's own rules, so typescript's  *)
(* settings win over es6's and es6's win over es5's.                       *)
(***************************************************************************)
AppliedBefore(a, b) ==
    \A i, j \in DOMAIN linted.applied :
        (linted.applied[i] = a /\ linted.applied[j] = b) => i < j

C15_Es6BeforeTypescript ==
    Linted =>
        LET name == Basename(linted.file)
            got == Range(linted.applied)
            es5 == RulesOf(configs["es5"])
            es6 == RulesOf(configs["es6"])
            ts == RulesOf(configs["typescript"])
        IN  /\ (EndsWith(name, Es6Suffix) \/ EndsWith(name, TsSuffix))
                   => "es6" \in got
            /\ "es6" \in got =>
                   /\ AppliedBefore("es5", "es6")
                   /\ \A id \in RuleIds(es6) \ RuleIds(ts) :
                          RuleSetting(LintedRules, id) = RuleSetting(es6, id)
            /\ EndsWith(name, TsSuffix) =>
                   /\ PluginPrefix \o "es6"
                          \in Range(ExtendsOf(configs["typescript"]))
                   /\ "typescript" \in got
                   /\ AppliedBefore("es6", "typescript")
                   /\ \A id \in RuleIds(ts) :
                          Severity(RuleSetting(LintedRules, id))
                              = Severity(RuleSetting(ts, id))

(* A TypeScript file has es5, es6 and typescript applied, in that order. *)
C15_Witness ==
    /\ Linted
    /\ EndsWith(Basename(linted.file), TsSuffix)
    /\ OwnApplied = <<"es5", "recommended", "es6", "typescript">>
    /\ Severity(RuleSetting(LintedRules, "lines-around-comment")) = "off"
    /\ RuleSetting(LintedRules, "quotes")
           = RuleSetting(RulesOf(configs["es6"]), "quotes")

(***************************************************************************)
(* C16: for every file matching "*.ts" under recommended the base rule     *)
(* lines-around-comment is off in the rule map in force, although es5 sets *)
(* it to warn, and @typescript-eslint/lines-around-comment is warn; for    *)
(* every other file the base rule is warn and the TypeScript variant is    *)
(* absent.  The two rules are never both active for one file.              *)
(***************************************************************************)
RuleActive(rules, id) ==
    /\ id \in RuleIds(rules)
    /\ Severity(RuleSetting(rules, id)) /= "off"

C16_LinesAroundCommentExclusive ==
    Linted =>
        LET base == "lines-around-comment"
            variant == "@typescript-eslint/lines-around-comment"
            rules == LintedRules
        IN  /\ Severity(RuleSetting(RulesOf(configs["es5"]), base)) = "warn"
            /\ EndsWith(Basename(linted.file), TsSuffix) =>
                   /\ Severity(RuleSetting(rules, base)) = "off"
                   /\ variant \in RuleIds(rules)
                   /\ Severity(RuleSetting(rules, variant)) = "warn"
            /\ ~EndsWith(Basename(linted.file), TsSuffix) =>
                   /\ Severity(RuleSetting(rules, base)) = "warn"
                   /\ variant \notin RuleIds(rules)
            /\ ~(RuleActive(rules, base) /\ RuleActive(rules, variant))

(* A TypeScript file has the base rule off and the variant active. *)
C16_Witness ==
    /\ Linted
    /\ EndsWith(Basename(linted.file), TsSuffix)
    /\ ~RuleActive(LintedRules, "lines-around-comment")
    /\ RuleActive(LintedRules, "@typescript-eslint/lines-around-comment")

====
